---- MODULE Spec2Model ----
(***************************************************************************)
(* LectureFlow backend: the three-node LangGraph pipeline                  *)
(* (agents/orchestrator.py), the batch endpoint POST /api/process and the  *)
(* cache-gated SSE endpoint GET /api/process/stream (main.py).             *)
(*                                                                         *)
(* One request is in flight at a time.  Time is counted in whole days.     *)
(* Texts are sequences of character positions, Text(n) being a text of n   *)
(* characters.  Python's None and the empty dict are both the empty        *)
(* sequence <<>>; a missing video id is the string "None".                 *)
(***************************************************************************)
EXTENDS Integers, Sequences, FiniteSets, TLC

\* ------------------------------------------------------------------------
\* Bounds of the model
\* ------------------------------------------------------------------------
MaxTime == 8
MaxResults == 2
MaxChunks == 2
MaxNotes == 101
MaxPage == 2
MaxPageSize == 2

\* ------------------------------------------------------------------------
\* Program constants
\* ------------------------------------------------------------------------
cache_days == 7
chunk_size == 50

\* The days at which the clock is read: ages of less than, exactly and more
\* than cache_days occur among them.
Times == {0, 1} \cup (cache_days .. MaxTime)

None == <<>>
NoId == "None"

START == "__start__"
END == "__end__"

Nodes == {"fetch_transcript", "summarize", "extract_concepts"}
Leaves == {"summarize", "extract_concepts"}

\* The request URLs: two forms of video A, one of video B, one malformed.
Urls == {"watch?v=A", "youtu.be/A", "watch?v=B", "not-a-url"}

\* Length of the lecture notes the summarizer returns for a transcript: more
\* than one chunk for video A, no notes at all for video B.
NotesLen(transcript) == IF transcript = "A" THEN chunk_size + 1 ELSE 0

Text(n) == [i \in 1..n |-> i]

Min(a, b) == IF a < b THEN a ELSE b

\* YouTubeTranscriptExtractor._extract_video_id: the first pattern that
\* matches gives the 11-character id, no match gives None.
extract_video_id(url) ==
    CASE url = "watch?v=A" -> "A"
      [] url = "youtu.be/A" -> "A"
      [] url = "watch?v=B" -> "B"
      [] OTHER -> NoId

\* ------------------------------------------------------------------------
\* State
\* ------------------------------------------------------------------------
VARIABLES
    now,          \* wall clock, in days
    videos,       \* committed rows of table videos
    results,      \* committed rows of table processing_results
    nextId,       \* next primary key of processing_results
    pc,           \* position of the request in flight ("idle" when none)
    req,          \* the request in flight: kind, video_url, force
    node,         \* graph run: status of each node
    writes,       \* graph run: output of each completed node, not yet merged
    applied,      \* graph run: nodes whose output has been merged
    state,        \* graph run: the OverallState
    calls,        \* number of adapter invocations made by the request
    final_state,  \* batch: what MultiAgentOrchestrator.process returned
    session,      \* batch: objects handed to db.add, not yet committed
    response,     \* batch: the HTTP response
    snap,         \* committed rows when the request started
    events,       \* stream: the SSE events yielded so far
    cached_result,\* stream: what get_cached_result returned
    lookup,       \* stream: what get_cached_result logged ("none": not called)
    raised,       \* stream: the exception raised inside the generator
    chunk_i,      \* stream: chunks emitted so far by the current loop
    disconnected, \* stream: the client has gone away
    peer,         \* a second request on the same event loop
    deleted       \* history: id and video of the results deleted so far

vars == <<now, videos, results, nextId, pc, req, node, writes, applied, state,
          calls, final_state, session, response, snap, events, cached_result,
          lookup, raised, chunk_i, disconnected, peer, deleted>>

NoReq == [kind |-> "none", video_url |-> "", force |-> FALSE]
NoPeer == [pc |-> "none", video_url |-> "", session |-> <<>>]
NoCalls == [a \in {"extract", "summarize", "summarize_stream", "extract_concepts"} |-> 0]
NoNodes == [n \in Nodes |-> "pending"]
NoWrites == [n \in Nodes |-> None]

\* MultiAgentOrchestrator.process: initial_state
initial_state(video_url) ==
    [video_url |-> video_url,
     transcript |-> "",
     video_metadata |-> None,
     lecture_notes |-> <<>>,
     ai_tools |-> <<>>,
     concepts |-> <<>>,
     content_type |-> None,
     agent_execution_order |-> <<>>]

Init ==
    /\ now = 0
    /\ videos = {}
    /\ results = {}
    /\ nextId = 1
    /\ pc = "idle"
    /\ req = NoReq
    /\ node = NoNodes
    /\ writes = NoWrites
    /\ applied = {}
    /\ state = initial_state("")
    /\ calls = NoCalls
    /\ final_state = None
    /\ session = <<>>
    /\ response = None
    /\ snap = [videos |-> {}, results |-> {}]
    /\ events = <<>>
    /\ cached_result = None
    /\ lookup = "none"
    /\ raised = "None"
    /\ chunk_i = 0
    /\ disconnected = FALSE
    /\ peer = NoPeer
    /\ deleted = {}

\* ------------------------------------------------------------------------
\* Time.  A request takes seconds and the clock counts days: the day
\* changes between requests.
\* ------------------------------------------------------------------------
Tick ==
    /\ pc = "idle"
    /\ \E t \in Times : t > now /\ now' = t
    /\ UNCHANGED <<peer, deleted, videos, results, nextId, pc, req, node, writes, applied,
                   state, calls, final_state, session, response, snap, events,
                   cached_result, lookup, raised, chunk_i, disconnected>>

\* ------------------------------------------------------------------------
\* The task graph (agents/orchestrator.py)
\* ------------------------------------------------------------------------

\* Variant: "summarize" wired to START instead of to "fetch_transcript".
EdgesSummarizeFromStart ==
    {<<START, "fetch_transcript">>,
     <<START, "summarize">>,
     <<"fetch_transcript", "extract_concepts">>,
     <<"summarize", END>>,
     <<"extract_concepts", END>>}

\* create_multi_agent_graph: the edges
Edges ==
    {<<START, "fetch_transcript">>,
     <<"fetch_transcript", "summarize">>,
     <<"fetch_transcript", "extract_concepts">>,
     <<"summarize", END>>,
     <<"extract_concepts", END>>}

\* Variant: the declared predecessors are not waited for.
PredsIgnored(n) == {}

\* The nodes whose completion a node waits for.
Preds(n) == {e[1] : e \in {f \in Edges : f[2] = n}} \ {START}

\* Variant: the key has no reducer, the later update overwrites the list.
operator_add_overwrite(a, b) == b

\* OverallState.agent_execution_order: Annotated[List[str], operator.add]
operator_add(a, b) == a \o b

\* Merge of one node's output into the OverallState: the annotated key goes
\* through its reducer, every other key is overwritten.
ApplyUpdate(st, out) ==
    [k \in DOMAIN st |->
        IF k \in DOMAIN out
        THEN IF k = "agent_execution_order"
             THEN operator_add(st[k], out[k])
             ELSE out[k]
        ELSE st[k]]

RECURSIVE ApplyAll(_, _, _)
ApplyAll(st, order, w) ==
    IF order = <<>> THEN st
    ELSE ApplyAll(ApplyUpdate(st, w[Head(order)]), Tail(order), w)

\* The orders in which the outputs of a set of nodes can be merged.
Orders(S) ==
    {o \in [1..Cardinality(S) -> S] : \A i, j \in DOMAIN o : i # j => o[i] # o[j]}

\* fetch_transcript_node: the TranscriptOutput for a fetched video
fetch_transcript_node(st) ==
    [transcript |-> extract_video_id(st.video_url),
     video_metadata |-> [video_id |-> extract_video_id(st.video_url),
                         video_url |-> st.video_url],
     agent_execution_order |-> <<"fetch_transcript">>]

\* Variant: the summarizer node returns the tool list as well, empty.
summarize_node_with_tools(st) ==
    [lecture_notes |-> Text(NotesLen(st.transcript)),
     ai_tools |-> <<>>,
     agent_execution_order |-> <<"summarize">>]

\* summarize_node: the SummarizerOutput
summarize_node(st) ==
    [lecture_notes |-> Text(NotesLen(st.transcript)),
     agent_execution_order |-> <<"summarize">>]

\* Variant: the concept node returns the notes key as well, empty.
extract_concepts_node_with_notes(st) ==
    [ai_tools |-> <<[tool_name |-> "c1", category |-> "general"]>>,
     concepts |-> <<[name |-> "c1", category |-> "general"]>>,
     content_type |-> [primary_type |-> "general"],
     lecture_notes |-> <<>>,
     agent_execution_order |-> <<"extract_concepts">>]

\* extract_concepts_node: the ConceptExtractorOutput
extract_concepts_node(st) ==
    [ai_tools |-> <<[tool_name |-> "c1", category |-> "general"]>>,
     concepts |-> <<[name |-> "c1", category |-> "general"]>>,
     content_type |-> [primary_type |-> "general"],
     agent_execution_order |-> <<"extract_concepts">>]

\* The adapter a node calls.
AdapterOf(n) ==
    CASE n = "fetch_transcript" -> "extract"
      [] n = "summarize" -> "summarize"
      [] n = "extract_concepts" -> "extract_concepts"

\* A node is launched once every predecessor's output has been merged.
Ready(n) == node[n] = "pending" /\ Preds(n) \subseteq applied

NodeStart(n) ==
    /\ pc = "graph"
    /\ Ready(n)
    /\ \A m \in Nodes : node[m] # "failed"
    /\ node' = [node EXCEPT ![n] = "running"]
    /\ calls' = [calls EXCEPT ![AdapterOf(n)] = @ + 1]
    /\ UNCHANGED <<peer, deleted, now, videos, results, nextId, pc, req, writes, applied,
                   state, final_state, session, response, snap, events,
                   cached_result, lookup, raised, chunk_i, disconnected>>

\* YouTubeTranscriptExtractor.extract raises ValueError for a malformed URL
\* and for a video without transcript, and may fail in other ways.
ExtractOutcomes(url) ==
    IF extract_video_id(url) = NoId THEN {"ValueError"}
    ELSE {"ok", "ValueError", "Exception"}

\* The summarizer raises on a failed model call; ConceptExtractor raises
\* ValueError without an API key and Exception on a failed call.
LeafOutcomes == {"ok", "ValueError", "Exception"}

NodeDone(n) ==
    /\ pc = "graph"
    /\ node[n] = "running"
    /\ \/ /\ n = "fetch_transcript"
          /\ "ok" \in ExtractOutcomes(state.video_url)
          /\ writes' = [writes EXCEPT ![n] = fetch_transcript_node(state)]
       \/ /\ n = "summarize"
          /\ writes' = [writes EXCEPT ![n] = summarize_node(state)]
       \/ /\ n = "extract_concepts"
          /\ writes' = [writes EXCEPT ![n] = extract_concepts_node(state)]
    /\ node' = [node EXCEPT ![n] = "done"]
    /\ UNCHANGED <<peer, deleted, now, videos, results, nextId, pc, req, applied, state,
                   calls, final_state, session, response, snap, events,
                   cached_result, lookup, raised, chunk_i, disconnected>>

NodeFail(n) ==
    /\ pc = "graph"
    /\ node[n] = "running"
    /\ \E exc \in (IF n = "fetch_transcript"
                   THEN ExtractOutcomes(state.video_url)
                   ELSE LeafOutcomes) \ {"ok"} :
          writes' = [writes EXCEPT ![n] = [raised |-> exc]]
    /\ node' = [node EXCEPT ![n] = "failed"]
    /\ UNCHANGED <<peer, deleted, now, videos, results, nextId, pc, req, applied, state,
                   calls, final_state, session, response, snap, events,
                   cached_result, lookup, raised, chunk_i, disconnected>>

\* Variant: the output of a completed node is merged at once, whatever the
\* other nodes of the step do.
StepEndEager ==
    /\ pc = "graph"
    /\ \E n \in Nodes :
          /\ node[n] = "done"
          /\ n \notin applied
          /\ state' = ApplyUpdate(state, writes[n])
          /\ applied' = applied \cup {n}
    /\ UNCHANGED <<peer, deleted, now, videos, results, nextId, pc, req, node, writes, calls,
                   final_state, session, response, snap, events, cached_result,
                   lookup, raised, chunk_i, disconnected>>

\* End of a step of the graph run: every node launched in the step has
\* completed; their outputs are merged into the state.
StepEnd ==
    /\ pc = "graph"
    /\ \A n \in Nodes : node[n] \in {"pending", "done"} /\ ~Ready(n)
    /\ LET fin == {n \in Nodes : node[n] = "done" /\ n \notin applied}
       IN /\ fin # {}
          /\ \E o \in Orders(fin) : state' = ApplyAll(state, o, writes)
          /\ applied' = applied \cup fin
    /\ UNCHANGED <<peer, deleted, now, videos, results, nextId, pc, req, node, writes, calls,
                   final_state, session, response, snap, events, cached_result,
                   lookup, raised, chunk_i, disconnected>>

\* ------------------------------------------------------------------------
\* Batch mode: POST /api/process (main.py, process_video)
\* ------------------------------------------------------------------------

\* except ValueError -> 400, except Exception -> 500; no data either way.
HTTPException(exc) ==
    [status_code |-> IF exc = "ValueError" THEN 400 ELSE 500,
     success |-> FALSE,
     data |-> None,
     detail |-> exc]

\* MultiAgentResponse(success=True, data=MultiAgentResult(...))
MultiAgentResponse(fs) ==
    [status_code |-> 200,
     success |-> TRUE,
     data |-> [video_metadata |-> fs.video_metadata,
               lecture_notes |-> fs.lecture_notes,
               ai_tools |-> fs.ai_tools,
               agent_execution_order |-> fs.agent_execution_order],
     detail |-> "None"]

\* ProcessingResult(...) as handed to db.add; id and created_at are given
\* by the database when the row is written.
ProcessingRecord(video_row_id, fs) ==
    [id |-> 0,
     video_id |-> video_row_id,
     transcript_text |-> fs.transcript,
     lecture_notes |-> fs.lecture_notes,
     ai_tools |-> fs.ai_tools,
     agent_execution_order |-> fs.agent_execution_order,
     created_at |-> 0]

BatchStart(url) ==
    /\ pc = "idle"
    /\ nextId <= MaxResults
    /\ pc' = "graph"
    /\ req' = [kind |-> "batch", video_url |-> url, force |-> FALSE]
    /\ node' = NoNodes
    /\ writes' = NoWrites
    /\ applied' = {}
    /\ state' = initial_state(url)
    /\ calls' = NoCalls
    /\ final_state' = None
    /\ session' = <<>>
    /\ response' = None
    /\ snap' = [videos |-> videos, results |-> results]
    /\ UNCHANGED <<peer, deleted, now, videos, results, nextId, events, cached_result,
                   lookup, raised, chunk_i, disconnected>>

\* graph.invoke returns: every node has run and its output is merged.
GraphReturn ==
    /\ pc = "graph"
    /\ applied = Nodes
    /\ final_state' = state
    /\ pc' = "b_select"
    /\ UNCHANGED <<peer, deleted, now, videos, results, nextId, req, node, writes, applied,
                   state, calls, session, response, snap, events,
                   cached_result, lookup, raised, chunk_i, disconnected>>

\* Variant: the handler answers with the partial state of the run and hands
\* it to the session.
OnGraphErrorPartial(exc, sess) ==
    [response |-> MultiAgentResponse(state),
     session |-> Append(sess, [op |-> "add", table |-> "ProcessingResult",
                               row |-> ProcessingRecord(0, state)])]

\* graph.invoke raises the exception of a failed node; process_video turns
\* it into an HTTPException.  Nothing was handed to the session.
OnGraphError(exc, sess) ==
    [response |-> HTTPException(exc), session |-> <<>>]

GraphRaise ==
    /\ pc = "graph"
    /\ \E n \in Nodes :
          /\ node[n] = "failed"
          /\ LET r == OnGraphError(writes[n].raised, session)
             IN /\ response' = r.response
                /\ session' = r.session
    /\ pc' = "responded"
    /\ UNCHANGED <<peer, deleted, now, videos, results, nextId, req, node, writes, applied,
                   state, calls, final_state, snap, events, cached_result,
                   lookup, raised, chunk_i, disconnected>>

VideoRows(video_id) == {v \in videos : v.video_id = video_id}

\* select(Video).where(Video.video_id == ...), then either the update of the
\* existing row followed by db.add(processing_record) and the return, or
\* db.add(video_record) and the wait for db.flush.
SessionRows(sess, table) ==
    {sess[i].row : i \in {j \in DOMAIN sess : sess[j].table = table}}

\* The primary key of a Video row added now: unused by the committed rows
\* and by the rows added in the other open session.
NewVideoId(other) ==
    Cardinality(videos) + Cardinality(SessionRows(other, "Video")) + 1

\* Variant: the update of an existing video leaves times_processed alone.
BatchSelectVideoNoCount ==
    /\ pc = "b_select"
    /\ \E dbok \in BOOLEAN :
          IF ~dbok
          THEN /\ response' = HTTPException("Exception")
               /\ session' = <<>>
               /\ pc' = "responded"
          ELSE LET md == final_state.video_metadata
                   found == VideoRows(md.video_id)
               IN IF found # {}
                  THEN LET v == CHOOSE v \in found : TRUE
                           nv == [v EXCEPT !.last_processed_at = now]
                       IN /\ session' =
                               <<[op |-> "update", table |-> "Video", row |-> nv],
                                 [op |-> "add", table |-> "ProcessingResult",
                                  row |-> ProcessingRecord(v.id, final_state)]>>
                          /\ response' = MultiAgentResponse(final_state)
                          /\ pc' = "b_commit"
                  ELSE /\ session' =
                            <<[op |-> "add", table |-> "Video",
                               row |-> [id |-> NewVideoId(peer.session),
                                        video_id |-> md.video_id,
                                        video_url |-> md.video_url,
                                        times_processed |-> 1,
                                        last_processed_at |-> now]]>>
                       /\ response' = None
                       /\ pc' = "b_flush"
    /\ UNCHANGED <<peer, deleted, now, videos, results, nextId, req, node, writes, applied,
                   state, calls, final_state, snap, events, cached_result,
                   lookup, raised, chunk_i, disconnected>>

BatchSelectVideo ==
    /\ pc = "b_select"
    /\ \E dbok \in BOOLEAN :
          IF ~dbok
          THEN /\ response' = HTTPException("Exception")
               /\ session' = <<>>
               /\ pc' = "responded"
          ELSE LET md == final_state.video_metadata
                   found == VideoRows(md.video_id)
               IN IF found # {}
                  THEN LET v == CHOOSE v \in found : TRUE
                           nv == [v EXCEPT !.times_processed = @ + 1,
                                           !.last_processed_at = now]
                       IN /\ session' =
                               <<[op |-> "update", table |-> "Video", row |-> nv],
                                 [op |-> "add", table |-> "ProcessingResult",
                                  row |-> ProcessingRecord(v.id, final_state)]>>
                          /\ response' = MultiAgentResponse(final_state)
                          /\ pc' = "b_commit"
                  ELSE /\ session' =
                            <<[op |-> "add", table |-> "Video",
                               row |-> [id |-> NewVideoId(peer.session),
                                        video_id |-> md.video_id,
                                        video_url |-> md.video_url,
                                        times_processed |-> 1,
                                        last_processed_at |-> now]]>>
                       /\ response' = None
                       /\ pc' = "b_flush"
    /\ UNCHANGED <<peer, deleted, now, videos, results, nextId, req, node, writes, applied,
                   state, calls, final_state, snap, events, cached_result,
                   lookup, raised, chunk_i, disconnected>>

\* db.flush returned: db.add(processing_record), build the response, return.
BatchFlush ==
    /\ pc = "b_flush"
    /\ session' = Append(session,
                    [op |-> "add", table |-> "ProcessingResult",
                     row |-> ProcessingRecord(session[1].row.id, final_state)])
    /\ response' = MultiAgentResponse(final_state)
    /\ pc' = "b_commit"
    /\ UNCHANGED <<peer, deleted, now, videos, results, nextId, req, node, writes, applied,
                   state, calls, final_state, snap, events, cached_result,
                   lookup, raised, chunk_i, disconnected>>

\* Variant: the commit replaces the stored results of the video by the new one.
BatchCommitReplaces ==
    /\ pc = "b_commit"
    /\ LET vs == SessionRows(session, "Video")
           rs == SessionRows(session, "ProcessingResult")
       IN /\ videos' = {v \in videos : \A w \in vs : w.id # v.id} \cup vs
          /\ results' = {r \in results : \A n \in rs : n.video_id # r.video_id} \cup
                {[r EXCEPT !.id = nextId, !.created_at = now] : r \in rs}
          /\ nextId' = nextId + Cardinality(rs)
    /\ session' = <<>>
    /\ pc' = "responded"
    /\ UNCHANGED <<peer, deleted, now, req, node, writes, applied, state, calls, final_state,
                   response, snap, events, cached_result, lookup, raised, chunk_i,
                   disconnected>>

\* "Commit transaction (handled by get_db dependency)": the rows of the
\* session are written when the handler has returned.
BatchCommit ==
    /\ pc = "b_commit"
    /\ LET vs == SessionRows(session, "Video")
           rs == SessionRows(session, "ProcessingResult")
       IN /\ videos' = {v \in videos : \A w \in vs : w.id # v.id} \cup vs
          /\ results' = results \cup
                {[r EXCEPT !.id = nextId, !.created_at = now] : r \in rs}
          /\ nextId' = nextId + Cardinality(rs)
    /\ session' = <<>>
    /\ pc' = "responded"
    /\ UNCHANGED <<peer, deleted, now, req, node, writes, applied, state, calls, final_state,
                   response, snap, events, cached_result, lookup, raised, chunk_i,
                   disconnected>>

\* The request is over; the next one may start.
\* The ids a DELETE request can name; the last one is never stored.
ResultIds == 1..(MaxResults + 1)

\* delete_history_item, entry: DELETE /api/history/{result_id}
DeleteStart(result_id) ==
    /\ pc = "idle"
    /\ pc' = "d_select"
    /\ req' = [kind |-> "delete", video_url |-> "", force |-> FALSE,
               result_id |-> result_id]
    /\ snap' = [videos |-> videos, results |-> results]
    /\ UNCHANGED <<peer, deleted, now, videos, results, nextId, node, writes, applied, state,
                   calls, final_state, session, response, events, cached_result,
                   lookup, raised, chunk_i, disconnected>>

\* The answer of the history endpoints
HistoryResponse(status_code, detail) ==
    [status_code |-> status_code,
     success |-> status_code = 200,
     data |-> None,
     detail |-> detail]

\* delete_history_item: select the result by id; 404 when there is none,
\* else db.delete marks it; any other exception is answered with 500
DeleteSelect ==
    /\ pc = "d_select"
    /\ \E dbok \in BOOLEAN :
          IF ~dbok
          THEN /\ response' = HistoryResponse(500, "Failed to delete history item")
               /\ session' = <<>>
               /\ pc' = "responded"
          ELSE LET found == {r \in results : r.id = req.result_id}
               IN IF found = {}
                  THEN /\ response' = HistoryResponse(404, "Processing result not found")
                       /\ session' = <<>>
                       /\ pc' = "responded"
                  ELSE /\ response' = HistoryResponse(200, "Processing result deleted successfully")
                       /\ session' = <<[op |-> "delete", table |-> "ProcessingResult",
                                        row |-> CHOOSE r \in found : TRUE]>>
                       /\ pc' = "d_commit"
    /\ UNCHANGED <<peer, deleted, now, videos, results, nextId, req, node, writes, applied,
                   state, calls, final_state, snap, events, cached_result,
                   lookup, raised, chunk_i, disconnected>>

\* Variant: the delete is answered but the row stays stored.
DeleteRowsKeepsAll(rows, sess) == rows

\* Variant: the delete removes every result of the video of the marked row.
DeleteRowsOfVideo(rows, sess) ==
    {r \in rows : \A i \in DOMAIN sess :
                     sess[i].op = "delete" => sess[i].row.video_id # r.video_id}

\* The rows left by the deletes of a session
DeleteRows(rows, sess) ==
    {r \in rows : \A i \in DOMAIN sess :
                     sess[i].op = "delete" => sess[i].row # r}

\* The commit of the delete, by the get_db dependency
DeleteCommit ==
    /\ pc = "d_commit"
    /\ results' = DeleteRows(results, session)
    /\ deleted' = deleted \cup {[id |-> session[i].row.id,
                                  video_id |-> session[i].row.video_id] :
                                    i \in DOMAIN session}
    /\ session' = <<>>
    /\ pc' = "responded"
    /\ UNCHANGED <<peer, now, videos, nextId, req, node, writes, applied, state, calls,
                   final_state, response, snap, events, cached_result, lookup,
                   raised, chunk_i, disconnected>>

\* The title and the channel name stored with a video, as characters.
TitleOf(video_id) ==
    IF video_id = "A" THEN <<"T", "L", "A">> ELSE <<"t", "l", "b">>

ChannelOf(video_id) ==
    IF video_id = "A" THEN <<"c", "h">> ELSE <<"C", "h", "x">>

\* The search terms of a history request; None is "no search parameter".
Searches == {None, <<"a">>, <<"L">>, <<"h", "X">>, <<"z">>}

\* Case folding of ILIKE.
Lower(c) ==
    CASE c = "A" -> "a" [] c = "C" -> "c" [] c = "L" -> "l"
      [] c = "T" -> "t" [] c = "X" -> "x" [] OTHER -> c

LowerSeq(t) == [i \in DOMAIN t |-> Lower(t[i])]

\* column.ilike("%search%"): the term occurs in the text, letter case aside
ilike(text, search) ==
    \E i \in 1..(Len(text) - Len(search) + 1) :
        SubSeq(LowerSeq(text), i, i + Len(search) - 1) = LowerSeq(search)

\* The rows of the join of processing_results with videos that pass the
\* search filter; "if search:" applies no filter for a missing or empty term
HistoryRows(search) ==
    {<<r, v>> \in results \X videos :
        /\ r.video_id = v.id
        /\ (search # <<>>) =>
              (ilike(TitleOf(v.video_id), search)
                 \/ ilike(ChannelOf(v.video_id), search))}

\* order_by(desc(created_at)): the orders the database can return the rows in
SortedOrders(rows) ==
    {o \in Orders(rows) :
        \A i, j \in DOMAIN o : i < j => o[i][1].created_at >= o[j][1].created_at}

\* Variant: the page number is taken as 0-indexed.
PageOfZeroIndexed(list, page, page_size) ==
    SubSeq(list, page * page_size + 1, Min((page + 1) * page_size, Len(list)))

\* query.offset((page - 1) * page_size).limit(page_size)
PageOf(list, page, page_size) ==
    SubSeq(list, (page - 1) * page_size + 1, Min(page * page_size, Len(list)))

\* HistoryItemSummary of a row
HistoryItemSummary(row) ==
    [id |-> row[1].id,
     video_id |-> row[2].video_id,
     video_title |-> TitleOf(row[2].video_id),
     channel_name |-> ChannelOf(row[2].video_id),
     processed_at |-> row[1].created_at]

\* get_history_list: GET /api/history?page=&page_size=&search=
get_history_list(page, page_size, search) ==
    /\ pc = "idle"
    /\ pc' = "responded"
    /\ req' = [kind |-> "history", video_url |-> "", force |-> FALSE,
               page |-> page, page_size |-> page_size, search |-> search]
    /\ \E dbok \in BOOLEAN :
          IF ~dbok
          THEN response' = [status_code |-> 500, success |-> FALSE, data |-> None,
                            detail |-> "Failed to fetch history"]
          ELSE \E list \in SortedOrders(HistoryRows(search)) :
                 LET rows == PageOf(list, page, page_size)
                 IN response' =
                      [status_code |-> 200,
                       success |-> TRUE,
                       data |-> [i \in DOMAIN rows |-> HistoryItemSummary(rows[i])],
                       total |-> Cardinality(HistoryRows(search)),
                       page |-> page,
                       page_size |-> page_size]
    /\ UNCHANGED <<peer, deleted, now, videos, results, nextId, node, writes, applied,
                   state, calls, final_state, session, snap, events,
                   cached_result, lookup, raised, chunk_i, disconnected>>

Finish ==
    /\ pc \in {"responded", "s_done"}
    /\ pc' = "idle"
    /\ req' = NoReq
    /\ node' = NoNodes
    /\ writes' = NoWrites
    /\ applied' = {}
    /\ state' = initial_state("")
    /\ calls' = NoCalls
    /\ final_state' = None
    /\ session' = <<>>
    /\ response' = None
    /\ snap' = [videos |-> {}, results |-> {}]
    /\ events' = <<>>
    /\ cached_result' = None
    /\ lookup' = "none"
    /\ raised' = "None"
    /\ chunk_i' = 0
    /\ disconnected' = FALSE
    /\ UNCHANGED <<peer, deleted, now, videos, results, nextId>>

\* ------------------------------------------------------------------------
\* The cache gate (main.py, get_cached_result)
\* ------------------------------------------------------------------------

\* Variant: the cutoff itself passes the filter (>= instead of >).
CacheRowsInclusive(video_id, cache_cutoff) ==
    {<<r, v>> \in results \X videos :
        /\ r.video_id = v.id
        /\ v.video_id = video_id
        /\ r.created_at >= cache_cutoff}

\* The rows of the join ProcessingResult x Video that pass the filter
\*   Video.video_id == video_id and ProcessingResult.created_at > cache_cutoff
CacheRows(video_id, cache_cutoff) ==
    {<<r, v>> \in results \X videos :
        /\ r.video_id = v.id
        /\ v.video_id = video_id
        /\ r.created_at > cache_cutoff}

\* Variant: ascending order, the oldest row comes first.
FirstRowsOldest(rows) ==
    {x \in rows : \A y \in rows : y[1].created_at >= x[1].created_at}

\* order_by(desc(created_at)).limit(1): the rows the query may return as
\* its first row (rows of equal created_at are in no particular order).
FirstRows(rows) ==
    {x \in rows : \A y \in rows : y[1].created_at <= x[1].created_at}

\* get_cached_result(video_url, cache_days, db): the values it may return;
\* {} stands for None.
get_cached_result(video_url, days) ==
    FirstRows(CacheRows(extract_video_id(video_url), now - days))

\* ------------------------------------------------------------------------
\* Streaming mode: GET /api/process/stream (main.py, event_generator)
\* ------------------------------------------------------------------------

Status(text) == [type |-> "status", data |-> text]

\* Variant: the loop stops before a last slice shorter than chunk_size.
RECURSIVE ChunksFullOnly(_, _)
ChunksFullOnly(notes, i) ==
    IF i + chunk_size > Len(notes) THEN <<>>
    ELSE <<[type |-> "chunk",
            data |-> SubSeq(notes, i + 1, i + chunk_size)]>>
         \o ChunksFullOnly(notes, i + chunk_size)

\* The chunks of the cached branch: notes[i:i + chunk_size] for
\* i in range(0, len(notes), chunk_size).
RECURSIVE Chunks(_, _)
Chunks(notes, i) ==
    IF i >= Len(notes) THEN <<>>
    ELSE <<[type |-> "chunk",
            data |-> SubSeq(notes, i + 1, Min(i + chunk_size, Len(notes)))]>>
         \o Chunks(notes, i + chunk_size)

\* Variant: the metadata event is yielded before the cache indicator.
cached_events_metadata_first(processing_result, video, today) ==
    <<[type |-> "metadata",
       data |-> [video_id |-> video.video_id,
                 video_url |-> video.video_url,
                 transcript |-> processing_result.transcript_text]],
      [type |-> "cache",
       data |-> [from_cache |-> TRUE,
                 cached_at |-> processing_result.created_at,
                 cache_age |-> today - processing_result.created_at]]>>
    \o Chunks(processing_result.lecture_notes, 0)
    \o <<[type |-> "notes_complete"],
         [type |-> "tools", data |-> processing_result.ai_tools],
         [type |-> "complete"]>>

\* Variant: the tools event is yielded before notes_complete.
cached_events_tools_first(processing_result, video, today) ==
    <<[type |-> "cache",
       data |-> [from_cache |-> TRUE,
                 cached_at |-> processing_result.created_at,
                 cache_age |-> today - processing_result.created_at]],
      [type |-> "metadata",
       data |-> [video_id |-> video.video_id,
                 video_url |-> video.video_url,
                 transcript |-> processing_result.transcript_text]]>>
    \o Chunks(processing_result.lecture_notes, 0)
    \o <<[type |-> "tools", data |-> processing_result.ai_tools],
         [type |-> "notes_complete"],
         [type |-> "complete"]>>

\* The cached branch: the events it yields for a row of the cache, in order.
cached_events(processing_result, video, today) ==
    <<[type |-> "cache",
       data |-> [from_cache |-> TRUE,
                 cached_at |-> processing_result.created_at,
                 cache_age |-> today - processing_result.created_at]],
      [type |-> "metadata",
       data |-> [video_id |-> video.video_id,
                 video_url |-> video.video_url,
                 transcript |-> processing_result.transcript_text]]>>
    \o Chunks(processing_result.lecture_notes, 0)
    \o <<[type |-> "notes_complete"],
         [type |-> "tools", data |-> processing_result.ai_tools],
         [type |-> "complete"]>>

\* Variant: only "except ValueError" is there; any other exception leaves
\* the generator without an event.
OnStreamErrorValueOnly(evs, exc) ==
    IF exc = "ValueError" THEN Append(evs, [type |-> "error", error |-> exc])
    ELSE evs

\* except ValueError / except Exception: one error event, then the
\* generator ends.
OnStreamError(evs, exc) ==
    Append(evs, [type |-> "error", error |-> exc])

\* Variant: the cache is checked whether or not force is set.
StreamStartAlwaysChecks(url, force) ==
    /\ pc = "idle"
    /\ req' = [kind |-> "stream", video_url |-> url, force |-> force]
    /\ cached_result' = None
    /\ events' = <<Status("Checking cache...")>>
    /\ pc' = "s_check"
    /\ calls' = NoCalls
    /\ lookup' = "none"
    /\ raised' = "None"
    /\ chunk_i' = 0
    /\ disconnected' = FALSE
    /\ snap' = [videos |-> videos, results |-> results]
    /\ UNCHANGED <<peer, deleted, now, videos, results, nextId, node, writes, applied, state,
                   final_state, session, response>>

\* First step of the generator: with force the lookup is skipped and the
\* fresh branch announces the forced reprocess; without it the generator
\* announces the cache check.
StreamStart(url, force) ==
    /\ pc = "idle"
    /\ req' = [kind |-> "stream", video_url |-> url, force |-> force]
    /\ cached_result' = None
    /\ IF ~force
       THEN /\ events' = <<Status("Checking cache...")>>
            /\ pc' = "s_check"
       ELSE /\ events' = <<[type |-> "cache",
                            data |-> [from_cache |-> FALSE,
                                      reason |-> "forced_reprocess"]]>>
            /\ pc' = "f_status"
    /\ calls' = NoCalls
    /\ lookup' = "none"
    /\ raised' = "None"
    /\ chunk_i' = 0
    /\ disconnected' = FALSE
    /\ snap' = [videos |-> videos, results |-> results]
    /\ UNCHANGED <<peer, deleted, now, videos, results, nextId, node, writes, applied, state,
                   final_state, session, response>>

\* Variant: a failed lookup is reported as an error event and ends the stream.
StreamCheckRaises ==
    /\ pc = "s_check"
    /\ \E dbok \in BOOLEAN :
       LET found == IF dbok THEN get_cached_result(req.video_url, cache_days)
                    ELSE {}
       IN /\ lookup' = IF ~dbok THEN "error"
                        ELSE IF found # {} THEN "HIT" ELSE "MISS"
          /\ IF found # {} /\ ~req.force
             THEN \E row \in found :
                    /\ cached_result' = row
                    /\ events' = Append(events,
                                   cached_events(row[1], row[2], now)[1])
                    /\ pc' = "s_cached"
             ELSE IF ~dbok
                  THEN /\ cached_result' = None
                       /\ events' = OnStreamError(events, "Exception")
                       /\ pc' = "s_done"
                  ELSE /\ cached_result' = None
                       /\ events' = Append(events, Status("Fetching transcript..."))
                       /\ pc' = "f_extract"
    /\ UNCHANGED <<peer, deleted, now, videos, results, nextId, req, node, writes, applied,
                   state, calls, final_state, session, response, snap, chunk_i,
                   disconnected, raised>>

\* await get_cached_result(...), then the first event of the branch taken.
\* A failing lookup is caught inside get_cached_result and gives None.
StreamCheck ==
    /\ pc = "s_check"
    /\ \E dbok \in BOOLEAN :
       LET found == IF dbok THEN get_cached_result(req.video_url, cache_days)
                    ELSE {}
       IN /\ lookup' = IF ~dbok THEN "error"
                        ELSE IF found # {} THEN "HIT" ELSE "MISS"
          /\ IF found # {} /\ ~req.force
             THEN \E row \in found :
                    /\ cached_result' = row
                    /\ events' = Append(events,
                                   cached_events(row[1], row[2], now)[1])
                    /\ pc' = "s_cached"
             ELSE /\ cached_result' = None
                  /\ events' = Append(events, Status("Fetching transcript..."))
                  /\ pc' = "f_extract"
    /\ UNCHANGED <<peer, deleted, now, videos, results, nextId, req, node, writes, applied,
                   state, calls, final_state, session, response, snap, chunk_i,
                   disconnected, raised>>

\* The cached branch yields its next event; after "complete" it returns.
StreamCachedYield ==
    /\ pc = "s_cached"
    /\ LET all == cached_events(cached_result[1], cached_result[2], now)
           k == Len(events)
       IN /\ events' = Append(events, all[k])
          /\ pc' = IF k = Len(all) THEN "s_done" ELSE "s_cached"
    /\ UNCHANGED <<peer, deleted, now, videos, results, nextId, req, node, writes, applied,
                   state, calls, final_state, session, response, snap,
                   cached_result, lookup, raised, chunk_i, disconnected>>

\* Variant: the forced path repeats the cache indicator before its status.
StreamFetchStatusRepeatsCache ==
    /\ pc = "f_status"
    /\ events' = events \o <<events[1], Status("Fetching transcript...")>>
    /\ pc' = "f_extract"
    /\ UNCHANGED <<peer, deleted, now, videos, results, nextId, req, node, writes, applied,
                   state, calls, final_state, session, response, snap,
                   cached_result, lookup, raised, chunk_i, disconnected>>

\* Forced fresh run, after the cache indicator: the fetch status.
StreamFetchStatus ==
    /\ pc = "f_status"
    /\ events' = Append(events, Status("Fetching transcript..."))
    /\ pc' = "f_extract"
    /\ UNCHANGED <<peer, deleted, now, videos, results, nextId, req, node, writes, applied,
                   state, calls, final_state, session, response, snap,
                   cached_result, lookup, raised, chunk_i, disconnected>>

\* extractor.extract(video_url), then the metadata event.
StreamExtract ==
    /\ pc = "f_extract"
    /\ calls' = [calls EXCEPT !["extract"] = @ + 1]
    /\ \E out \in ExtractOutcomes(req.video_url) :
          IF out = "ok"
          THEN /\ events' = Append(events,
                    [type |-> "metadata",
                     data |-> [video_id |-> extract_video_id(req.video_url),
                               video_url |-> req.video_url,
                               transcript |-> extract_video_id(req.video_url)]])
               /\ raised' = raised
               /\ pc' = "f_metadata"
          ELSE /\ events' = OnStreamError(events, out)
               /\ raised' = out
               /\ pc' = "s_done"
    /\ UNCHANGED <<peer, deleted, now, videos, results, nextId, req, node, writes, applied,
                   state, final_state, session, response, snap, cached_result,
                   lookup, chunk_i, disconnected>>

\* Variant: the concept extraction is launched before the chunk loop.
StreamAfterMetadataLaunchesConcepts ==
    /\ pc = "f_metadata"
    /\ IF disconnected
       THEN /\ events' = events
            /\ calls' = calls
            /\ pc' = "s_done"
       ELSE /\ events' = Append(events, Status("Generating lecture notes..."))
            /\ calls' = [calls EXCEPT !["extract_concepts"] = @ + 1]
            /\ pc' = "f_summarize"
    /\ chunk_i' = 0
    /\ UNCHANGED <<peer, deleted, now, videos, results, nextId, req, node, writes, applied,
                   state, final_state, session, response, snap,
                   cached_result, lookup, raised, disconnected>>

\* "Check for disconnect" after the metadata event, then the status of
\* step 2.
StreamAfterMetadata ==
    /\ pc = "f_metadata"
    /\ IF disconnected
       THEN /\ events' = events
            /\ pc' = "s_done"
       ELSE /\ events' = Append(events, Status("Generating lecture notes..."))
            /\ pc' = "f_summarize"
    /\ chunk_i' = 0
    /\ UNCHANGED <<peer, deleted, now, videos, results, nextId, req, node, writes, applied,
                   state, calls, final_state, session, response, snap,
                   cached_result, lookup, raised, disconnected>>

\* One turn of "async for chunk in summarizer.summarize_stream(...)": the
\* sequence gives its next fragment, ends, or fails.
StreamSummarize ==
    /\ pc = "f_summarize"
    /\ calls' = IF chunk_i = 0
                THEN [calls EXCEPT !["summarize_stream"] = @ + 1]
                ELSE calls
    /\ \E out \in {"chunk", "end", "ValueError", "Exception"} :
          CASE out = "chunk" ->
                 /\ chunk_i < MaxChunks
                 /\ raised' = raised
                 /\ IF disconnected
                    THEN /\ events' = events
                         /\ chunk_i' = chunk_i
                         /\ pc' = "s_done"
                    ELSE /\ events' = Append(events,
                                        [type |-> "chunk", data |-> Text(1)])
                         /\ chunk_i' = chunk_i + 1
                         /\ pc' = "f_summarize"
            [] out = "end" ->
                 /\ events' = Append(events, [type |-> "notes_complete"])
                 /\ raised' = raised
                 /\ chunk_i' = chunk_i
                 /\ pc' = "f_notes_complete"
            [] OTHER ->
                 /\ events' = OnStreamError(events, out)
                 /\ raised' = out
                 /\ chunk_i' = chunk_i
                 /\ pc' = "s_done"
    /\ UNCHANGED <<peer, deleted, now, videos, results, nextId, req, node, writes, applied,
                   state, final_state, session, response, snap, cached_result,
                   lookup, disconnected>>

\* Variant: the notes are stored as a result when notes_complete is yielded.
StreamExtractStatusPersists ==
    /\ pc = "f_notes_complete"
    /\ events' = Append(events, Status("Extracting key concepts..."))
    /\ results' = results \cup
          {[ProcessingRecord(0, initial_state(req.video_url))
               EXCEPT !.id = nextId, !.created_at = now]}
    /\ pc' = "f_concepts"
    /\ UNCHANGED <<peer, deleted, now, videos, nextId, req, node, writes, applied,
                   state, calls, final_state, session, response, snap,
                   cached_result, lookup, raised, chunk_i, disconnected>>

\* The status of step 3.
StreamExtractStatus ==
    /\ pc = "f_notes_complete"
    /\ events' = Append(events, Status("Extracting key concepts..."))
    /\ pc' = "f_concepts"
    /\ UNCHANGED <<peer, deleted, now, videos, results, nextId, req, node, writes, applied,
                   state, calls, final_state, session, response, snap,
                   cached_result, lookup, raised, chunk_i, disconnected>>

\* ConceptExtractor().extract(...), then the concepts event.
StreamConcepts ==
    /\ pc = "f_concepts"
    /\ calls' = [calls EXCEPT !["extract_concepts"] = @ + 1]
    /\ \E out \in LeafOutcomes :
          IF out = "ok"
          THEN /\ events' = Append(events,
                    [type |-> "concepts",
                     data |-> [concepts |-> extract_concepts_node(state).concepts,
                               content_type |-> extract_concepts_node(state).content_type,
                               ai_tools |-> extract_concepts_node(state).ai_tools]])
               /\ raised' = raised
               /\ pc' = "f_tools"
          ELSE /\ events' = OnStreamError(events, out)
               /\ raised' = out
               /\ pc' = "s_done"
    /\ UNCHANGED <<peer, deleted, now, videos, results, nextId, req, node, writes, applied,
                   state, final_state, session, response, snap, cached_result,
                   lookup, chunk_i, disconnected>>

\* The tools event "for backward compatibility with old frontend".
StreamTools ==
    /\ pc = "f_tools"
    /\ events' = Append(events,
                   [type |-> "tools",
                    data |-> extract_concepts_node(state).ai_tools])
    /\ pc' = "f_complete"
    /\ UNCHANGED <<peer, deleted, now, videos, results, nextId, req, node, writes, applied,
                   state, calls, final_state, session, response, snap,
                   cached_result, lookup, raised, chunk_i, disconnected>>

\* Step 4: the complete event; the generator ends.
StreamComplete ==
    /\ pc = "f_complete"
    /\ events' = Append(events, [type |-> "complete"])
    /\ pc' = "s_done"
    /\ UNCHANGED <<peer, deleted, now, videos, results, nextId, req, node, writes, applied,
                   state, calls, final_state, session, response, snap,
                   cached_result, lookup, raised, chunk_i, disconnected>>

\* The client goes away while the stream is open.
Disconnect ==
    /\ req.kind = "stream"
    /\ pc # "s_done"
    /\ ~disconnected
    /\ disconnected' = TRUE
    /\ UNCHANGED <<peer, deleted, now, videos, results, nextId, pc, req, node, writes,
                   applied, state, calls, final_state, session, response, snap,
                   events, cached_result, lookup, raised, chunk_i>>

\* ------------------------------------------------------------------------
\* The system
\* ------------------------------------------------------------------------
\* process_video calls orchestrator.process, and with it graph.invoke and
\* the three adapters, without await: from the entry of the handler to the
\* return of the call its coroutine holds the thread of the event loop.
LoopBusy == pc = "graph"

\* A second request, for another video, is accepted while the first is served.
PeerArrive(url) ==
    /\ req.kind = "batch"
    /\ pc # "responded"
    /\ peer = NoPeer
    /\ extract_video_id(url) \notin {NoId, extract_video_id(req.video_url)}
    /\ peer' = [pc |-> "accepted", video_url |-> url, session |-> <<>>]
    /\ UNCHANGED <<deleted, now, videos, results, nextId, pc, req, node, writes, applied,
                   state, calls, final_state, session, response, snap, events,
                   cached_result, lookup, raised, chunk_i, disconnected>>

\* The event loop runs the first step of the handler of the second request,
\* up to its first yield.
PeerStep ==
    /\ peer.pc = "accepted"
    /\ ~LoopBusy
    /\ peer' = [peer EXCEPT !.pc = "stepped"]
    /\ UNCHANGED <<deleted, now, videos, results, nextId, pc, req, node, writes, applied,
                   state, calls, final_state, session, response, snap, events,
                   cached_result, lookup, raised, chunk_i, disconnected>>

\* The second request goes away.
PeerDone ==
    /\ peer.pc \in {"stepped", "responded", "failed"}
    /\ peer' = NoPeer
    /\ UNCHANGED <<deleted, now, videos, results, nextId, pc, req, node, writes, applied,
                   state, calls, final_state, session, response, snap, events,
                   cached_result, lookup, raised, chunk_i, disconnected>>

Next ==
    \/ Tick
    \/ \E url \in Urls : BatchStart(url)
    \/ \E n \in Nodes : NodeStart(n)
    \/ \E n \in Nodes : NodeDone(n)
    \/ \E n \in Nodes : NodeFail(n)
    \/ StepEnd
    \/ GraphReturn
    \/ GraphRaise
    \/ BatchSelectVideo
    \/ BatchFlush
    \/ BatchCommit
    \/ \E page \in 1..MaxPage, page_size \in 1..MaxPageSize, search \in Searches :
          get_history_list(page, page_size, search)
    \/ \E result_id \in ResultIds : DeleteStart(result_id)
    \/ DeleteSelect
    \/ DeleteCommit
    \/ Finish
    \/ \E url \in Urls, force \in BOOLEAN : StreamStart(url, force)
    \/ StreamCheck
    \/ StreamCachedYield
    \/ StreamFetchStatus
    \/ StreamExtract
    \/ StreamAfterMetadata
    \/ StreamSummarize
    \/ StreamExtractStatus
    \/ StreamConcepts
    \/ StreamTools
    \/ StreamComplete
    \/ Disconnect

Spec == Init /\ [][Next]_vars

\* A database that holds one result of video A, stored at time 0, whose
\* notes have any length up to MaxNotes.
InitChunks ==
    /\ \E n \in 0..MaxNotes :
          results = {[ProcessingRecord(1, initial_state("watch?v=A"))
                        EXCEPT !.id = 1,
                               !.transcript_text = "A",
                               !.lecture_notes = Text(n)]}
    /\ videos = {[id |-> 1, video_id |-> "A", video_url |-> "watch?v=A",
                  times_processed |-> 1, last_processed_at |-> 0]}
    /\ nextId = 2
    /\ now = 0
    /\ pc = "idle"
    /\ req = NoReq
    /\ node = NoNodes
    /\ writes = NoWrites
    /\ applied = {}
    /\ state = initial_state("")
    /\ calls = NoCalls
    /\ final_state = None
    /\ session = <<>>
    /\ response = None
    /\ snap = [videos |-> {}, results |-> {}]
    /\ events = <<>>
    /\ cached_result = None
    /\ lookup = "none"
    /\ raised = "None"
    /\ chunk_i = 0
    /\ disconnected = FALSE
    /\ peer = NoPeer
    /\ deleted = {}

\* The non-forced streaming requests up to the end of a replay.
NextChunks ==
    \/ Tick
    \/ \E url \in Urls : StreamStart(url, FALSE)
    \/ StreamCheck
    \/ StreamCachedYield
    \/ Finish

SpecChunks == InitChunks /\ [][NextChunks]_vars

\* A second POST /api/process for the video of the first, whose
\* orchestrator.process has returned while the first run was suspended at an
\* await of its database part.
PeerBatchReturn(url) ==
    /\ req.kind = "batch"
    /\ pc \in {"b_select", "b_flush", "b_commit"}
    /\ peer = NoPeer
    /\ nextId < MaxResults
    /\ extract_video_id(url) = extract_video_id(req.video_url)
    /\ peer' = [pc |-> "b_select", video_url |-> url, session |-> <<>>]
    /\ UNCHANGED <<deleted, now, videos, results, nextId, pc, req, node, writes, applied,
                   state, calls, final_state, session, response, snap, events,
                   cached_result, lookup, raised, chunk_i, disconnected>>

\* What graph.invoke returns to the second run.
PeerFinalState ==
    LET st0 == initial_state(peer.video_url)
        st1 == ApplyUpdate(st0, fetch_transcript_node(st0))
        w == [n \in Nodes |-> IF n = "summarize" THEN summarize_node(st1)
                              ELSE extract_concepts_node(st1)]
    IN ApplyAll(st1, <<"summarize", "extract_concepts">>, w)

\* The second run's select(Video): it sees the committed rows only.
PeerSelectVideo ==
    /\ peer.pc = "b_select"
    /\ ~LoopBusy
    /\ LET found == VideoRows(extract_video_id(peer.video_url))
       IN IF found # {}
          THEN LET v == CHOOSE v \in found : TRUE
                   nv == [v EXCEPT !.times_processed = @ + 1,
                                   !.last_processed_at = now]
               IN peer' = [peer EXCEPT
                      !.pc = "b_commit",
                      !.session =
                          <<[op |-> "update", table |-> "Video", row |-> nv],
                            [op |-> "add", table |-> "ProcessingResult",
                             row |-> ProcessingRecord(v.id, PeerFinalState)]>>]
          ELSE peer' = [peer EXCEPT
                      !.pc = "b_flush",
                      !.session =
                          <<[op |-> "add", table |-> "Video",
                             row |-> [id |-> NewVideoId(session),
                                      video_id |-> extract_video_id(peer.video_url),
                                      video_url |-> peer.video_url,
                                      times_processed |-> 1,
                                      last_processed_at |-> now]]>>]
    /\ UNCHANGED <<deleted, now, videos, results, nextId, pc, req, node, writes, applied,
                   state, calls, final_state, session, response, snap, events,
                   cached_result, lookup, raised, chunk_i, disconnected>>

\* The second run's db.flush of its new Video. The schema of the videos
\* table is not part of the sources: when a committed row or a row of the
\* first run's session has the same video_id, a unique constraint on the
\* column makes the INSERT fail (answered with 500), no constraint lets it
\* pass.
PeerFlush ==
    /\ peer.pc = "b_flush"
    /\ ~LoopBusy
    /\ \E unique \in BOOLEAN :
          LET mine == peer.session[1].row
              same == {v \in videos \cup SessionRows(session, "Video") :
                          v.video_id = mine.video_id /\ v.id # mine.id}
          IN IF unique /\ same # {}
             THEN peer' = [peer EXCEPT !.pc = "failed", !.session = <<>>]
             ELSE peer' = [peer EXCEPT
                      !.pc = "b_commit",
                      !.session = Append(@,
                          [op |-> "add", table |-> "ProcessingResult",
                           row |-> ProcessingRecord(mine.id, PeerFinalState)])]
    /\ UNCHANGED <<deleted, now, videos, results, nextId, pc, req, node, writes, applied,
                   state, calls, final_state, session, response, snap, events,
                   cached_result, lookup, raised, chunk_i, disconnected>>

\* The commit of the second run's session.
PeerCommit ==
    /\ peer.pc = "b_commit"
    /\ ~LoopBusy
    /\ LET vs == SessionRows(peer.session, "Video")
           rs == SessionRows(peer.session, "ProcessingResult")
       IN /\ videos' = {v \in videos : \A w \in vs : w.id # v.id} \cup vs
          /\ results' = results \cup
                {[r EXCEPT !.id = nextId, !.created_at = now] : r \in rs}
          /\ nextId' = nextId + Cardinality(rs)
    /\ peer' = [peer EXCEPT !.pc = "responded", !.session = <<>>]
    /\ UNCHANGED <<deleted, now, pc, req, node, writes, applied, state, calls,
                   final_state, session, response, snap, events, cached_result,
                   lookup, raised, chunk_i, disconnected>>

\* The batch endpoint with a second batch run of the same video.
NextRace ==
    \/ Tick
    \/ \E url \in Urls : BatchStart(url)
    \/ \E n \in Nodes : NodeStart(n)
    \/ \E n \in Nodes : NodeDone(n)
    \/ \E n \in Nodes : NodeFail(n)
    \/ StepEnd
    \/ GraphReturn
    \/ GraphRaise
    \/ BatchSelectVideo
    \/ BatchFlush
    \/ BatchCommit
    \/ Finish
    \/ \E url \in Urls : PeerBatchReturn(url)
    \/ PeerSelectVideo
    \/ PeerFlush
    \/ PeerCommit
    \/ PeerDone

SpecRace == Init /\ [][NextRace]_vars

\* The batch endpoint with a second request on the same event loop.
NextLoop ==
    \/ Tick
    \/ \E url \in Urls : BatchStart(url)
    \/ \E n \in Nodes : NodeStart(n)
    \/ \E n \in Nodes : NodeDone(n)
    \/ \E n \in Nodes : NodeFail(n)
    \/ StepEnd
    \/ GraphReturn
    \/ GraphRaise
    \/ BatchSelectVideo
    \/ BatchFlush
    \/ BatchCommit
    \/ Finish
    \/ \E url \in Urls : PeerArrive(url)
    \/ PeerStep
    \/ PeerDone

SpecLoop == Init /\ [][NextLoop]_vars

\* ------------------------------------------------------------------------
\* Properties
\* ------------------------------------------------------------------------

Count(seq, x) == Cardinality({i \in DOMAIN seq : seq[i] = x})

\* C1: the agent_execution_order of every state returned by
\* MultiAgentOrchestrator.process has length 3, holds each of the three
\* node names exactly once, and begins with "fetch_transcript".
C1_ExecutionOrderIsTopological ==
    final_state # None =>
        LET o == final_state.agent_execution_order
        IN /\ Len(o) = 3
           /\ \A n \in Nodes : Count(o, n) = 1
           /\ o[1] = "fetch_transcript"

\* A run has returned in which extract_concepts was merged before summarize.
C1_Witness ==
    /\ final_state # None
    /\ final_state.agent_execution_order =
          <<"fetch_transcript", "extract_concepts", "summarize">>

\* C2: a leaf that has been launched (running, done or failed) implies
\* that fetch_transcript has completed and its output is merged; nothing
\* relates the progress of one leaf to the other.
C2_LeavesStartAfterRoot ==
    \A n \in Leaves :
        node[n] # "pending" =>
            /\ node["fetch_transcript"] = "done"
            /\ "fetch_transcript" \in applied

\* extract_concepts has completed while summarize has not been launched.
C2_Witness ==
    /\ pc = "graph"
    /\ node["extract_concepts"] = "done"
    /\ node["summarize"] = "pending"

\* C3: in a batch run whose fetch_transcript failed, neither leaf adapter
\* has been called, nothing was handed to the session, and the committed
\* tables are as they were when the run began.
C3_RootFailureStopsRun ==
    (req.kind = "batch" /\ node["fetch_transcript"] = "failed") =>
        /\ calls["summarize"] = 0
        /\ calls["extract_concepts"] = 0
        /\ session = <<>>
        /\ videos = snap.videos
        /\ results = snap.results

\* A batch run of a well-formed URL has answered after its fetch failed.
C3_Witness ==
    /\ req.kind = "batch"
    /\ pc = "responded"
    /\ node["fetch_transcript"] = "failed"
    /\ extract_video_id(req.video_url) # NoId
    /\ response.status_code = 500

OneLeafFailedOtherDone ==
    /\ req.kind = "batch"
    /\ \E n \in Leaves : \E m \in Leaves \ {n} :
          node[n] = "failed" /\ node[m] = "done"

\* C4: a batch run in which one leaf failed and the other completed never
\* gets past graph.invoke: no final state, nothing handed to the session,
\* the committed tables unchanged, and its response is an error without
\* data.
C4_PartialFailureNotPersisted ==
    OneLeafFailedOtherDone =>
        /\ pc \in {"graph", "responded"}
        /\ final_state = None
        /\ session = <<>>
        /\ videos = snap.videos
        /\ results = snap.results
        /\ pc = "responded" =>
              /\ response.success = FALSE
              /\ response.status_code \in {400, 500}
              /\ response.data = None

\* The run has answered with summarize completed and extract_concepts failed.
C4_Witness ==
    /\ req.kind = "batch"
    /\ pc = "responded"
    /\ node["summarize"] = "done"
    /\ node["extract_concepts"] = "failed"

Kinds(evs) == [i \in 1..Len(evs) |-> evs[i].type]

Completed == events # <<>> /\ events[Len(events)].type = "complete"

\* C5: in every event sequence of the streaming endpoint a chunk is
\* preceded by the metadata event, notes_complete comes after every chunk,
\* tools comes after notes_complete, and a complete event is the last one.
C5_StreamEventOrder ==
    LET k == Kinds(events)
    IN /\ \A i \in DOMAIN k :
             k[i] = "chunk" => \E j \in 1..(i - 1) : k[j] = "metadata"
       /\ \A i, j \in DOMAIN k :
             (k[i] = "metadata" /\ k[j] = "chunk") => i < j
       /\ \A i, j \in DOMAIN k :
             (k[i] = "notes_complete" /\ k[j] = "chunk") => j < i
       /\ \A i \in DOMAIN k :
             k[i] = "tools" => \E j \in 1..(i - 1) : k[j] = "notes_complete"
       /\ \A i, j \in DOMAIN k :
             (k[i] = "tools" /\ k[j] = "notes_complete") => j < i
       /\ \A i \in DOMAIN k : k[i] = "complete" => i = Len(k)

\* A cached replay with two chunks has run to its complete event.
C5_Witness ==
    /\ pc = "s_done"
    /\ cached_result # None
    /\ Completed
    /\ Count(Kinds(events), "chunk") = 2

\* C6: a stream carries an error event exactly when an exception was raised
\* inside the generator; then there is one such event, it is the last
\* event, it reports that exception, the generator has ended, and the
\* stream holds no complete event.
C6_FailureEndsStreamWithOneError ==
    LET k == Kinds(events)
    IN /\ Count(k, "error") <= 1
       /\ (raised # "None") <=> (Count(k, "error") = 1)
       /\ \A i \in DOMAIN k :
             k[i] = "error" =>
                /\ i = Len(k)
                /\ pc = "s_done"
                /\ events[i].error = raised
                /\ Count(k, "complete") = 0

\* The summarizer failed with a server error after a chunk was streamed.
C6_Witness ==
    /\ raised = "Exception"
    /\ pc = "s_done"
    /\ Count(Kinds(events), "chunk") >= 1
    /\ Count(Kinds(events), "notes_complete") = 0

\* The result-bearing kinds of an event sequence, in order, a run of
\* chunks counting once.
RECURSIVE Collapse(_)
Collapse(k) ==
    IF Len(k) <= 1 THEN k
    ELSE IF k[1] = "chunk" /\ k[2] = "chunk" THEN Collapse(Tail(k))
    ELSE <<k[1]>> \o Collapse(Tail(k))

IsResultKind(x) == x \notin {"status", "cache"}

Shape(k) == Collapse(SelectSeq(k, IsResultKind))

\* C7: a fresh streaming run that streamed at least one chunk and reached
\* its complete event has the same shape as the cached replay of any stored
\* record with notes: the same result-bearing event kinds in the same order.
C7_ReplayShapeEqualsFreshShape ==
    (/\ req.kind = "stream"
     /\ pc = "s_done"
     /\ cached_result = None
     /\ Completed
     /\ Count(Kinds(events), "chunk") >= 1) =>
        \A r \in results : \A v \in videos :
            (r.video_id = v.id /\ r.lecture_notes # <<>>) =>
                Shape(Kinds(events)) = Shape(Kinds(cached_events(r, v, now)))

\* The stored results of a video.
RowsFor(video_id) ==
    {r \in results : \E v \in videos : v.id = r.video_id /\ v.video_id = video_id}

\* C8 as stated: without force and with a working lookup, the cached branch
\* is taken iff the video has a result of age <= cache_days, and a fresh run
\* is reported as "STALE" when the video has older results and as "MISS"
\* when it has none.
C8_GateInclusiveWithReasons ==
    (req.kind = "stream" /\ ~req.force /\ lookup \in {"HIT", "MISS", "STALE"}) =>
        LET rows == RowsFor(extract_video_id(req.video_url))
        IN /\ (cached_result # None) <=>
                 (\E r \in rows : now - r.created_at <= cache_days)
           /\ cached_result = None =>
                 lookup = IF rows # {} THEN "STALE" ELSE "MISS"

\* C8 amended: without force, the cached branch is taken iff the lookup
\* worked and the video has a result of age < cache_days (a result exactly
\* cache_days old is not used); every other lookup that worked is reported
\* as "MISS", whether or not the video has older results.
C8_GateStrictWindow ==
    (req.kind = "stream" /\ ~req.force /\ lookup # "none") =>
        LET rows == RowsFor(extract_video_id(req.video_url))
        IN /\ lookup \in {"HIT", "MISS", "error"}
           /\ (cached_result # None) <=> (lookup = "HIT")
           /\ lookup # "error" =>
                 ((lookup = "HIT") <=>
                      (\E r \in rows : now - r.created_at < cache_days))

\* The lookup missed although the video has a result exactly cache_days old.
C8_Witness ==
    /\ req.kind = "stream"
    /\ lookup = "MISS"
    /\ \E r \in RowsFor(extract_video_id(req.video_url)) :
          now - r.created_at = cache_days

\* C9: a stream requested with force never calls get_cached_result, never
\* holds a cached row and never is in the cached branch; its first event is
\* the cache indicator from_cache = false with reason "forced_reprocess",
\* and it has no other cache event.
C9_ForceAlwaysFresh ==
    (req.kind = "stream" /\ req.force) =>
        /\ pc \notin {"s_check", "s_cached"}
        /\ lookup = "none"
        /\ cached_result = None
        /\ events[1].type = "cache"
        /\ events[1].data.from_cache = FALSE
        /\ events[1].data.reason = "forced_reprocess"
        /\ \A i \in 2..Len(events) : events[i].type # "cache"

\* A forced stream has run to its complete event although the cache holds a
\* result of the video that a lookup would have returned.
C9_Witness ==
    /\ req.kind = "stream"
    /\ req.force
    /\ pc = "s_done"
    /\ Completed
    /\ get_cached_result(req.video_url, cache_days) # {}

\* C10: the row a cache hit replays is a stored result of the requested
\* video, no stored result of that video is newer, and the cache event
\* announces that row's created_at.
C10_HitReplaysNewest ==
    cached_result # None =>
        /\ cached_result[1] \in RowsFor(extract_video_id(req.video_url))
        /\ \A r \in RowsFor(extract_video_id(req.video_url)) :
              r.created_at <= cached_result[1].created_at
        /\ events[2].type = "cache"
        /\ events[2].data.cached_at = cached_result[1].created_at

\* A hit while the video also has an older result.
C10_Witness ==
    /\ cached_result # None
    /\ \E r \in RowsFor(extract_video_id(req.video_url)) :
          r.created_at < cached_result[1].created_at

\* C11 as stated: when a batch run has answered with success, and when a
\* fresh streaming run has reached its complete event, the cache holds a
\* result of the requested video that a non-forced lookup returns.
C11_FreshRunLeavesCacheRecord ==
    /\ (req.kind = "batch" /\ pc = "responded" /\ response.success) =>
          get_cached_result(req.video_url, cache_days) # {}
    /\ (req.kind = "stream" /\ pc = "s_done" /\ cached_result = None /\ Completed) =>
          get_cached_result(req.video_url, cache_days) # {}

\* C12 as stated: when the client has disconnected and the last event
\* yielded is the metadata event, the next step of the generator that has
\* not ended yields nothing.
C12_NoEventAfterDisconnectAtMetadata ==
    [][(/\ req.kind = "stream"
        /\ pc # "s_done"
        /\ disconnected
        /\ events # <<>>
        /\ events[Len(events)].type = "metadata") => events' = events]_vars

\* The number of chunks of a text of n characters: ceil(n / chunk_size).
CeilChunks(n) == (n + chunk_size - 1) \div chunk_size

\* The kinds of a complete replay with n chunks, after the status of the
\* cache check.
ReplayKinds(n) ==
    <<"status", "cache", "metadata">>
    \o [i \in 1..n |-> "chunk"]
    \o <<"notes_complete", "tools", "complete">>

\* C13: while a cached row is replayed no adapter is called, the events are
\* a prefix of: cache indicator with from_cache = true and the age of the
\* row, metadata, one chunk per chunk_size characters of the stored notes,
\* notes_complete, tools, complete; the ended replay has yielded them all.
C13_ReplaySequenceWithoutAdapters ==
    cached_result # None =>
        LET want == ReplayKinds(CeilChunks(Len(cached_result[1].lecture_notes)))
            k == Kinds(events)
        IN /\ calls = NoCalls
           /\ Len(k) <= Len(want)
           /\ k = SubSeq(want, 1, Len(k))
           /\ events[2].data.from_cache = TRUE
           /\ events[2].data.cache_age = now - cached_result[1].created_at
           /\ pc = "s_done" <=> k = want
           /\ pc \in {"s_cached", "s_done"}

\* The replay of a row that is one day old has ended.
C13_Witness ==
    /\ cached_result # None
    /\ pc = "s_done"
    /\ now - cached_result[1].created_at = 1
    /\ Count(Kinds(events), "chunk") = 2

OrderKey == "agent_execution_order"

BothLeavesToMerge ==
    /\ pc = "graph"
    /\ \A n \in Leaves : node[n] = "done" /\ n \notin applied

\* C14: when both leaves have completed and their outputs are to be merged
\* into the state left by fetch_transcript, the two merge orders give states
\* that agree on every key but agent_execution_order, which is the root
\* name followed by the two leaf names in the order of the merge.
C14_LeafMergeOrderIndependent ==
    BothLeavesToMerge =>
        LET se == ApplyAll(state, <<"summarize", "extract_concepts">>, writes)
            es == ApplyAll(state, <<"extract_concepts", "summarize">>, writes)
        IN /\ \A k \in DOMAIN state \ {OrderKey} : se[k] = es[k]
           /\ se[OrderKey] = <<"fetch_transcript", "summarize", "extract_concepts">>
           /\ es[OrderKey] = <<"fetch_transcript", "extract_concepts", "summarize">>

\* Both leaves of a run of video A have completed and wait for the merge.
C14_Witness ==
    /\ BothLeavesToMerge
    /\ state.transcript = "A"
    /\ writes["summarize"].lecture_notes # <<>>

\* The keys a node is to write.
FieldsOf(n) ==
    CASE n = "fetch_transcript" -> {"transcript", "video_metadata"}
      [] n = "summarize" -> {"lecture_notes"}
      [] n = "extract_concepts" -> {"ai_tools", "concepts", "content_type"}

\* C15: in a batch run every node is called at most once; the output of a
\* completed node holds exactly its own keys besides agent_execution_order;
\* the keys of a node whose output is not merged still have their initial
\* value; the keys of the two leaves are disjoint.
C15_SingleWriterFields ==
    req.kind = "batch" =>
        /\ \A n \in Nodes :
              /\ calls[AdapterOf(n)] <= 1
              /\ node[n] = "done" => DOMAIN writes[n] \ {OrderKey} = FieldsOf(n)
              /\ n \notin applied =>
                    \A k \in FieldsOf(n) : state[k] = initial_state("")[k]
        /\ \A n \in Leaves : \A m \in Leaves \ {n} :
              (node[n] = "done" /\ node[m] = "done") =>
                  (DOMAIN writes[n] \cap DOMAIN writes[m]) = {OrderKey}

\* summarize is merged with its notes while both leaves have completed.
C15_Witness ==
    /\ req.kind = "batch"
    /\ applied = Nodes
    /\ state.lecture_notes # <<>>
    /\ state.concepts # <<>>

DeleteTarget == {r \in snap.results : r.id = req.result_id}

\* C16: a DELETE that is answered has left the Video rows as they were; with
\* 200 the named result existed and exactly it is gone; with 404 no result
\* had the id and the results are as they were; with 500 nothing changed;
\* before the answer nothing is changed.
C16_DeleteRemovesOnlyTheResult ==
    req.kind = "delete" =>
        /\ videos = snap.videos
        /\ pc \in {"d_select", "d_commit"} => results = snap.results
        /\ pc = "responded" =>
              /\ response.status_code \in {200, 404, 500}
              /\ response.status_code = 200 =>
                    /\ Cardinality(DeleteTarget) = 1
                    /\ results = snap.results \ DeleteTarget
              /\ response.status_code = 404 =>
                    /\ DeleteTarget = {}
                    /\ results = snap.results
              /\ response.status_code = 500 => results = snap.results
              /\ DeleteTarget = {} => response.status_code # 200

\* One of two stored results of the same video has been deleted.
C16_Witness ==
    /\ req.kind = "delete"
    /\ pc = "responded"
    /\ response.status_code = 200
    /\ Cardinality(results) = 1
    /\ \A r \in results : \A d \in DeleteTarget : r.video_id = d.video_id
    /\ videos # {}

\* The failure of the run is an invalid URL or an unavailable transcript:
\* the ValueError of YouTubeTranscriptExtractor.extract.
ClientFailure ==
    /\ node["fetch_transcript"] = "failed"
    /\ writes["fetch_transcript"].raised = "ValueError"

\* C17 as stated, for the runs whose summarizer has not failed: a batch
\* error answer has status 400 exactly when the URL is invalid or the
\* transcript unavailable and 500 otherwise, carries a reason and no data.
C17_BadRequestOnlyForClientFailure ==
    (/\ req.kind = "batch"
     /\ pc = "responded"
     /\ ~response.success
     /\ node["summarize"] # "failed") =>
        /\ response.status_code = (IF ClientFailure THEN 400 ELSE 500)
        /\ response.detail # ""
        /\ response.data = None

\* C18 as stated: while a node of the first run waits for its adapter, an
\* accepted request for another video can take its step.
C18_PeerCanStepDuringExternalCall ==
    (/\ peer.pc = "accepted"
     /\ \E n \in Nodes : node[n] = "running") => ENABLED PeerStep

\* C19 as stated: while the chunk sequence of a fresh streaming run has not
\* ended, the concept extraction has been launched or can be launched.
C19_ExtractionLaunchedDuringSummarize ==
    (req.kind = "stream" /\ pc = "f_summarize") =>
        (calls["extract_concepts"] >= 1 \/ ENABLED StreamConcepts)

\* C19, amended: in a fresh streaming run the concept extraction is called
\* only after the chunk sequence has ended and notes_complete was yielded;
\* while the chunks are produced it has not been called.
C19_ExtractionAfterNotesComplete ==
    req.kind = "stream" =>
        /\ calls["extract_concepts"] >= 1 =>
              /\ calls["summarize_stream"] = 1
              /\ Count(Kinds(events), "notes_complete") = 1
        /\ pc = "f_summarize" => calls["extract_concepts"] = 0

\* The extraction of a fresh streaming run was called after two chunks.
C19_Witness ==
    /\ req.kind = "stream"
    /\ cached_result = None
    /\ calls["extract_concepts"] = 1
    /\ Count(Kinds(events), "chunk") = 2
    /\ Count(Kinds(events), "concepts") = 1

\* The data of the chunk events yielded so far.
ChunkData ==
    LET c == SelectSeq(events, LAMBDA e : e.type = "chunk")
    IN [i \in 1..Len(c) |-> c[i].data]

RECURSIVE Concat(_)
Concat(ss) == IF ss = <<>> THEN <<>> ELSE Head(ss) \o Concat(Tail(ss))

\* C20: the chunks of a replay are, in order, the slices of chunk_size
\* characters of the stored notes: none is empty or longer than chunk_size,
\* all but the last of the ceil(len / chunk_size) chunks have chunk_size
\* characters; when notes_complete is yielded there are ceil(len / chunk_size)
\* of them (none for empty notes) and their concatenation is the notes.
C20_ChunksPartitionNotes ==
    cached_result # None =>
        LET notes == cached_result[1].lecture_notes
            total == CeilChunks(Len(notes))
            c == ChunkData
        IN /\ Len(c) <= total
           /\ \A k \in 1..Len(c) :
                 /\ Len(c[k]) \in 1..chunk_size
                 /\ k < total => Len(c[k]) = chunk_size
                 /\ c[k] = SubSeq(notes, chunk_size * (k - 1) + 1,
                                  chunk_size * (k - 1) + Len(c[k]))
           /\ Count(Kinds(events), "notes_complete") = 1 =>
                 /\ Len(c) = total
                 /\ Concat(c) = notes
                 /\ notes = <<>> <=> c = <<>>

\* A replay of notes of two full slices and a rest of one character has ended.
C20_Witness ==
    /\ cached_result # None
    /\ pc = "s_done"
    /\ Len(ChunkData) = 3
    /\ Len(ChunkData[3]) = 1
    /\ Len(ChunkData[1]) = chunk_size

\* C21 as stated, for the fresh producer: a step of the generator taken
\* while the client is disconnected yields no event.
C21_NoEventWhileDisconnected ==
    [][(/\ req.kind = "stream"
        /\ cached_result = None
        /\ pc \notin {"s_check", "s_done"}
        /\ disconnected) => events' = events]_vars

\* The positions of the events that satisfy a test.
Positions(evs, Test(_)) == {i \in DOMAIN evs : Test(evs[i])}

IsCacheInfo(e) == e.type = "cache"

IsFetchStatus(e) == e.type = "status" /\ e.data = "Fetching transcript..."

\* C22: a streaming run that does not replay has yielded a cache indicator
\* exactly when force is set; it is then the only one, says from_cache =
\* false, and precedes the status "Fetching transcript..."; a run that is
\* fresh after a missed or failed lookup has yielded none.
C22_CacheInfoOnlyWhenForced ==
    (req.kind = "stream" /\ cached_result = None /\ pc # "s_check") =>
        LET c == Positions(events, IsCacheInfo)
            f == Positions(events, IsFetchStatus)
        IN /\ Cardinality(c) = (IF req.force THEN 1 ELSE 0)
           /\ \A i \in c : /\ events[i].data.from_cache = FALSE
                           /\ \A k \in f : i < k
           /\ pc \notin {"f_status"} => Cardinality(f) = 1

\* A forced run has completed.
C22_Witness ==
    /\ req.kind = "stream"
    /\ cached_result = None
    /\ req.force
    /\ Positions(events, IsCacheInfo) = {1}
    /\ Positions(events, IsFetchStatus) = {2}
    /\ Count(Kinds(events), "complete") = 1

\* C23 as stated: the output of a completed leaf is in the state of the run.
C23_LeafOutputMergedOnCompletion ==
    \A n \in Leaves : node[n] = "done" => n \in applied

\* C23, amended: the outputs of the two leaves are merged together, at the
\* end of their parallel step: the state of a run never holds the keys of
\* one leaf without those of the other, and the caller of graph.invoke has
\* no state before the run has ended.
C23_LeavesMergedTogether ==
    req.kind = "batch" =>
        /\ ("summarize" \in applied) <=> ("extract_concepts" \in applied)
        /\ "extract_concepts" \notin applied =>
              state.lecture_notes = initial_state("").lecture_notes
        /\ "summarize" \notin applied =>
              state.concepts = initial_state("").concepts
        /\ pc = "graph" => final_state = None

\* summarize has returned its notes, extract_concepts still runs, and the
\* state has no notes.
C23_Witness ==
    /\ pc = "graph"
    /\ node["summarize"] = "done"
    /\ node["extract_concepts"] = "running"
    /\ writes["summarize"].lecture_notes # <<>>
    /\ state.lecture_notes = <<>>

\* The generator of a fresh run has returned on a disconnect.
Cancelled ==
    /\ pc = "s_done"
    /\ disconnected
    /\ raised = "None"
    /\ ~Completed

\* C24: a streaming run that has failed or has returned on a disconnect
\* leaves the Video and ProcessingResult tables as they were at its start.
C24_NoRecordFromAbandonedStream ==
    (req.kind = "stream" /\ (raised # "None" \/ Cancelled)) =>
        /\ results = snap.results
        /\ videos = snap.videos

\* The concept extraction of a fresh run has failed after notes_complete.
C24_Witness ==
    /\ req.kind = "stream"
    /\ raised # "None"
    /\ calls["extract_concepts"] = 1
    /\ Count(Kinds(events), "chunk") >= 1
    /\ Count(Kinds(events), "notes_complete") = 1

\* C25: a successful answer of GET /api/history reports as total the number
\* of joined rows that pass the search filter, and its items are, in order,
\* the rows at positions (page - 1) * page_size + 1 .. page * page_size, as
\* far as they exist, of a list of those rows sorted by created_at, newest
\* first.
C25_HistoryPageIsSliceOfSortedMatches ==
    (req.kind = "history" /\ pc = "responded" /\ response.success) =>
        LET match == HistoryRows(req.search)
            first == (req.page - 1) * req.page_size
            d == response.data
        IN /\ response.total = Cardinality(match)
           /\ Len(d) = Cardinality({k \in (first + 1)..(first + req.page_size) :
                                       k <= response.total})
           /\ \E list \in Orders(match) :
                 /\ \A i \in 1..(Len(list) - 1) :
                       list[i][1].created_at >= list[i + 1][1].created_at
                 /\ \A i \in DOMAIN d :
                       /\ d[i].id = list[first + i][1].id
                       /\ d[i].processed_at = list[first + i][1].created_at
                       /\ d[i].video_id = list[first + i][2].video_id

\* The second page of size one of two results that pass a search; the newer
\* result is of the other video.
C25_Witness ==
    /\ req.kind = "history"
    /\ pc = "responded"
    /\ response.success
    /\ req.page = 2
    /\ req.page_size = 1
    /\ req.search = <<"L">>
    /\ response.total = 2
    /\ Len(response.data) = 1
    /\ \E r \in results : /\ r.created_at > response.data[1].processed_at
                          /\ r.id # response.data[1].id
    /\ Cardinality(videos) = 2

\* The Video rows of the video of the request.
RequestVideoRows == VideoRows(extract_video_id(req.video_url))

\* C26 as stated: when two batch runs of a video that had no Video row have
\* both ended their database part, at most one Video row has the video_id
\* and every new ProcessingResult references it.
C26_OneVideoRowAfterConcurrentRuns ==
    (/\ req.kind = "batch"
     /\ pc = "responded"
     /\ peer.pc \in {"responded", "failed"}
     /\ \A v \in snap.videos : v.video_id # extract_video_id(req.video_url)) =>
        /\ Cardinality(RequestVideoRows) <= 1
        /\ \A r \in results \ snap.results :
              \A v \in RequestVideoRows : r.video_id = v.id

\* The results of a Video row that are stored, and those that were deleted.
StoredOf(v) == {r \in results : r.video_id = v.id}

DeletedOf(v) == {d \in deleted : d.video_id = v.id}

\* times_processed of every Video is the number of results ever committed
\* for it, at least 1 and at least the number of its stored results.
TimesProcessedCounts ==
    \A v \in videos :
        /\ v.times_processed = Cardinality(StoredOf(v)) + Cardinality(DeletedOf(v))
        /\ v.times_processed >= 1
        /\ v.times_processed >= Cardinality(StoredOf(v))

\* C27: under batch runs and deletions served one after the other, every
\* step leads to a state where the times_processed of every Video is the
\* number of results ever committed for it (the stored and the deleted
\* ones), is at least 1 and at least the number of its stored results; no
\* step decreases it or removes a Video.
C27_TimesProcessedCountsRuns ==
    [][/\ TimesProcessedCounts'
       /\ \A v \in videos :
             \E w \in videos' : /\ w.id = v.id
                                /\ w.times_processed >= v.times_processed]_vars

\* A video was processed twice and one of its two results was deleted.
C27_Witness ==
    \E v \in videos :
        /\ v.times_processed = 2
        /\ Cardinality(StoredOf(v)) = 1
        /\ Cardinality(DeletedOf(v)) = 1

FreshAtStart ==
    {r \in snap.results :
        /\ now - r.created_at < cache_days
        /\ \E v \in snap.videos : /\ v.id = r.video_id
                                  /\ v.video_id = extract_video_id(req.video_url)}

\* C29: a batch request never calls get_cached_result; when it is answered
\* with success each of the three adapters was called once, every result
\* stored at its start is stored unchanged, and exactly one result is new,
\* with a new id and the Video of the request.
C29_BatchAlwaysRunsAndAppends ==
    req.kind = "batch" =>
        /\ lookup = "none"
        /\ cached_result = None
        /\ (pc = "responded" /\ response.success) =>
              /\ calls["extract"] = 1
              /\ calls["summarize"] = 1
              /\ calls["extract_concepts"] = 1
              /\ snap.results \subseteq results
              /\ Cardinality(results \ snap.results) = 1
              /\ \A r \in results \ snap.results :
                    /\ \A o \in snap.results : o.id # r.id
                    /\ \E v \in RequestVideoRows : v.id = r.video_id

\* A batch run has succeeded for a video that had a result within the window.
C29_Witness ==
    /\ req.kind = "batch"
    /\ pc = "responded"
    /\ response.success
    /\ FreshAtStart # {}
    /\ Cardinality(results) = 2

\* The stored results of the requested video that are within the window.
LiveRows ==
    {r \in results :
        /\ now - r.created_at < cache_days
        /\ \E v \in RequestVideoRows : v.id = r.video_id}

\* C30: the record a non-forced stream replays is stored, was not deleted,
\* and is a newest one of the stored results of the video within the
\* window; when the lookup misses, no stored result of the video is within
\* the window.
C30_ReplayIgnoresDeletedResults ==
    req.kind = "stream" =>
        /\ lookup = "HIT" =>
              /\ cached_result # None
              /\ cached_result[1] \in LiveRows
              /\ \A d \in deleted : d.id # cached_result[1].id
              /\ \A r \in LiveRows : r.created_at <= cached_result[1].created_at
        /\ lookup = "MISS" => /\ cached_result = None
                              /\ LiveRows = {}
        /\ cached_result # None => lookup = "HIT"

\* After the newer result of a video was deleted, its older result has been
\* replayed.
C30_Witness ==
    /\ req.kind = "stream"
    /\ pc = "s_done"
    /\ cached_result # None
    /\ \E d \in deleted : /\ d.video_id = cached_result[1].video_id
                          /\ d.id > cached_result[1].id
====
